---- MODULE Spec2Model ----
(***************************************************************************)
(* A model of mo-gc: the SPSC journal (src/src/journal.rs), the mutator    *)
(* side smart pointers (src/src/appthread.rs) and the collector thread     *)
(* (src/src/gcthread.rs, youngheap.rs, parheap.rs, heap.rs).               *)
(*                                                                         *)
(* Two specifications share the journal operators:                         *)
(*   JournalSpec  one Sender and one Receiver of a journal of integers,    *)
(*                interleaved at every load of a sender-written word;      *)
(*   Spec         mutators, their journals and the collector main loop.    *)
(***************************************************************************)
EXTENDS Integers, Sequences, FiniteSets, TLC

(***************************************************************************)
(* Bounds of the model.                                                    *)
(***************************************************************************)
MaxSend == 5            \* values the journal-level sender sends at most
MaxRequestedCapacity == 3  \* make_journal(c) is called with c in 0..this

NullPtr == 0
Uninit == -1            \* content of a data slot never written

Min(a, b) == IF a < b THEN a ELSE b
Max(a, b) == IF a < b THEN b ELSE a

IsPrefix(s, t) == /\ Len(s) <= Len(t)
                  /\ \A i \in 1..Len(s) : s[i] = t[i]

(***************************************************************************)
(* journal.rs: buffers.  A buffer pointer is an index into the journal's   *)
(* heap of buffers; `freed` holds the pointers given back to the allocator.*)
(***************************************************************************)
RECURSIVE pow2_at_least(_, _)
pow2_at_least(p, n) == IF p >= n THEN p ELSE pow2_at_least(2 * p, n)

\* usize::next_power_of_two: the smallest power of two >= n (1 for n = 0)
next_power_of_two(n) == pow2_at_least(1, n)

\* Buffer::new without the rounding of the capacity
Buffer_new_unrounded(requested_capacity) ==
    LET rounded_capacity == requested_capacity IN
    [ data     |-> [i \in 0..(rounded_capacity - 1) |-> Uninit],
      capacity |-> rounded_capacity,
      head     |-> 0,
      tail     |-> 0,
      tail_max |-> rounded_capacity,
      next     |-> NullPtr ]

\* Buffer::new
Buffer_new(requested_capacity) ==
    LET rounded_capacity == next_power_of_two(requested_capacity) IN
    [ data     |-> [i \in 0..(rounded_capacity - 1) |-> Uninit],
      capacity |-> rounded_capacity,
      head     |-> 0,
      tail     |-> 0,
      tail_max |-> rounded_capacity,
      next     |-> NullPtr ]

\* BufferQueue::new
BufferQueue_new(capacity) ==
    [ heap  |-> << Buffer_new(capacity) >>,
      freed |-> {},
      head  |-> 1,
      tail  |-> 1,
      hup   |-> FALSE ]

\* Buffer::write, first branch: the slot at `tail` is written, then tail is bumped
write_here(b, item) ==
    [b EXCEPT !.data[b.tail] = item, !.tail = b.tail + 1]

\* Buffer::write without its else branch: a full buffer rejects the item
Buffer_write_no_successor(q, self, item) ==
    LET b == q.heap[self] IN
    IF b.tail < b.tail_max
    THEN [ q |-> [q EXCEPT !.heap[self] = write_here(b, item)], ret |-> NullPtr ]
    ELSE [ q |-> q, ret |-> NullPtr ]

\* Buffer::write on the buffer `self` of queue q.  Returns the queue and the
\* Option<*mut Buffer> (NullPtr for None).
Buffer_write(q, self, item) ==
    LET b == q.heap[self] IN
    IF b.tail < b.tail_max
    THEN [ q |-> [q EXCEPT !.heap[self] = write_here(b, item)], ret |-> NullPtr ]
    ELSE LET fresh  == Buffer_new(b.capacity)
             buffer == IF fresh.tail < fresh.tail_max
                       THEN write_here(fresh, item) ELSE fresh
             ptr    == Len(q.heap) + 1
         IN  [ q   |-> [q EXCEPT !.heap = Append([@ EXCEPT ![self].next = ptr], buffer)],
               ret |-> ptr ]

\* Sender::send
Sender_send(q, item) ==
    LET result == Buffer_write(q, q.tail, item) IN
    IF result.ret # NullPtr
    THEN [result.q EXCEPT !.tail = result.ret]
    ELSE result.q

\* Buffer::mark_completed without its store to tail_max
mark_completed_no_store(q) == q

\* Buffer::mark_completed on the tail buffer (first half of Sender::drop)
mark_completed(q) ==
    [q EXCEPT !.heap[q.tail].tail_max = q.heap[q.tail].tail]

\* Buffer::try_read: Some(item) is reported as ok = TRUE
try_read(b) ==
    IF b.head < b.tail
    THEN [ ok |-> TRUE,  item |-> b.data[b.head], b |-> [b EXCEPT !.head = b.head + 1] ]
    ELSE [ ok |-> FALSE, item |-> Uninit,         b |-> b ]

\* Buffer::is_empty
is_empty(b) == b.head = b.tail_max

\* Buffer::next_buffer
next_buffer(b) == b.next

\* BufferQueue::replace_head giving the new head back to the allocator instead
replace_head_frees_next(q, next_head) ==
    [q EXCEPT !.freed = @ \cup {next_head}, !.head = next_head]

\* BufferQueue::replace_head: the old head goes back to the allocator
replace_head(q, next_head) ==
    [q EXCEPT !.freed = @ \cup {q.head}, !.head = next_head]

\* Receiver::is_disconnected
is_disconnected(q) ==
    IF q.hup
    THEN IF next_buffer(q.heap[q.head]) = NullPtr
         THEN is_empty(q.heap[q.head])
         ELSE FALSE
    ELSE FALSE

\* Drop for BufferQueue: every buffer from the head on is freed
BufferQueue_drop(q) ==
    [q EXCEPT !.freed = @ \cup { p \in 1..Len(q.heap) : p >= q.head }]

(***************************************************************************)
(* Receiver::try_recv, one step per load of a word the sender writes.      *)
(* r is the receiver's local state: pc, the tail_max it loaded, and the    *)
(* result of the call that last returned.                                  *)
(*   pc: "idle" (between calls), "tail_max", "tail" (the two loads of      *)
(*   Buffer::is_completed), "next" (next_head), "peek" (try_read of the    *)
(*   new head), "hup".                                                     *)
(***************************************************************************)
RxIdle == [ pc |-> "idle", tail_max |-> 0, res |-> "none", item |-> Uninit ]

Returns(r, res, item) == [ pc |-> "idle", tail_max |-> 0, res |-> res, item |-> item ]

\* One step of try_recv: the pair of the queue and the receiver state after it.
try_recv_step(q, r) ==
    LET head == q.heap[q.head] IN
    CASE r.pc = "idle" ->
           LET result == try_read(head) IN
           IF result.ok
           THEN [ q |-> [q EXCEPT !.heap[q.head] = result.b],
                  r |-> Returns(r, "ok", result.item) ]
           ELSE [ q |-> q, r |-> [r EXCEPT !.pc = "tail_max", !.res = "none"] ]
      [] r.pc = "tail_max" ->
           [ q |-> q, r |-> [r EXCEPT !.pc = "tail", !.tail_max = head.tail_max] ]
      [] r.pc = "tail" ->
           IF r.tail_max = head.tail
           THEN [ q |-> q, r |-> [r EXCEPT !.pc = "next"] ]
           ELSE [ q |-> q, r |-> Returns(r, "empty", Uninit) ]
      [] r.pc = "next" ->
           IF next_buffer(head) # NullPtr
           THEN [ q |-> replace_head(q, next_buffer(head)),
                  r |-> [r EXCEPT !.pc = "peek"] ]
           ELSE [ q |-> q, r |-> [r EXCEPT !.pc = "hup"] ]
      [] r.pc = "peek" ->
           LET result == try_read(head) IN
           IF result.ok
           THEN [ q |-> [q EXCEPT !.heap[q.head] = result.b],
                  r |-> Returns(r, "ok", result.item) ]
           ELSE [ q |-> q, r |-> Returns(r, "empty", Uninit) ]
      [] r.pc = "hup" ->
           IF q.hup
           THEN [ q |-> q, r |-> Returns(r, "disconnected", Uninit) ]
           ELSE [ q |-> q, r |-> Returns(r, "empty", Uninit) ]

(***************************************************************************)
(* JournalSpec: make_journal(c), a sender thread that sends 1, 2, 3, ...   *)
(* and is dropped at some point, a receiver thread that calls try_recv     *)
(* again and again and may be dropped between two calls.                   *)
(***************************************************************************)
VARIABLES
    jq,        \* the BufferQueue
    jtx,       \* the Sender: "alive", "dropping" (tail_max stored, hup not yet), "dropped"
    jrx,       \* the Receiver's try_recv state
    jrx_alive, \* FALSE once the Receiver has been dropped
    jsent,     \* history: the values sent, in order
    jrecvd,    \* history: the values try_recv returned, in order
    jearly,    \* history: a try_recv step ran before the sender's drop had finished
    jcap,      \* history: the capacity make_journal was called with
    jquiet     \* history: no send has run since the last try_recv call began

jvars == << jq, jtx, jrx, jrx_alive, jsent, jrecvd, jearly, jcap, jquiet >>

\* make_journal
make_journal(capacity) == BufferQueue_new(capacity)

JournalInit ==
    /\ jcap \in 0..MaxRequestedCapacity
    /\ jq = make_journal(jcap)
    /\ jtx = "alive"
    /\ jrx = RxIdle
    /\ jrx_alive = TRUE
    /\ jsent = << >>
    /\ jrecvd = << >>
    /\ jearly = FALSE
    /\ jquiet = TRUE

(***************************************************************************)
(* constants.rs.  Words are WordBits wide; the journal and scheduling      *)
(* parameters are scaled down so that buffer changes, run cut-offs, the    *)
(* sleep back-off and major collections all happen within the bounds.      *)
(***************************************************************************)
WordBits == 8
JOURNAL_BUFFER_SIZE == 2
BUFFER_RUN == 2
JOURNAL_RUN == 2
MAX_SLEEP_DUR == 4
MIN_SLEEP_DUR == 1
MAJOR_COLLECT_THRESHOLD == 2
MARK_BIT == 1
TRAVERSE_BIT == 2
FLAGS_MASK == 3
INC_BIT == 1
NEW_BIT == 2
NEW_INC == 3
NEW_FLAGS == 2      \* constants.rs NEW (a reserved word here)
INC == 1
DEC == 0

Word == 2 ^ WordBits

RECURSIVE BitAnd(_, _)
BitAnd(x, y) == IF x = 0 \/ y = 0 THEN 0
                ELSE (x % 2) * (y % 2) + 2 * BitAnd(x \div 2, y \div 2)

RECURSIVE BitOr(_, _)
BitOr(x, y) == IF x = 0 THEN y
               ELSE IF y = 0 THEN x
               ELSE Max(x % 2, y % 2) + 2 * BitOr(x \div 2, y \div 2)

BitNot(x) == (Word - 1) - x

PTR_MASK == BitNot(3)
MARK_MASK == BitNot(1)
NEW_MASK == BitNot(2)

\* gcthread.rs ptr_shift(): size_of::<usize>() is never 32, so the shift is 3
ptr_shift == 3

(***************************************************************************)
(* Bounds of the collector model.                                          *)
(***************************************************************************)
NumMutators == 2        \* mutator threads spawned through the GcThread handle
MaxObjects == 2         \* managed objects allocated in a run
MaxOps == 2             \* allocations, clones and loads in a run, all mutators together

Mutators == 1..NumMutators
TravChoices == BOOLEAN
Addrs == 1..MaxObjects
Absent == [ absent |-> TRUE ]

\* the ascending sequence of the elements of a set of numbers
RECURSIVE SeqOf(_)
SeqOf(S) == IF S = {} THEN << >>
            ELSE LET x == CHOOSE y \in S : \A z \in S : y <= z
                 IN  << x >> \o SeqOf(S \ {x})

(***************************************************************************)
(* heap.rs: Object, RootMeta, ObjectMeta.                                  *)
(***************************************************************************)
\* Object::from_trie_ptr
from_trie_ptr(ptr, vtable) == [ ptr |-> ptr * (2 ^ ptr_shift), vtable |-> vtable ]

\* the trie key of a journal entry: entry.ptr >> ptr_shift()
trie_ptr(entry) == entry.ptr \div (2 ^ ptr_shift)

\* RootMeta::new
RootMeta_new(refcount, vtable, flags) ==
    [ refcount |-> refcount, vtable |-> vtable, flags |-> flags ]

\* RootMeta::one
RootMeta_one(vtable, flags) == RootMeta_new(1, vtable, flags)

\* RootMeta::zero
RootMeta_zero(vtable, flags) == RootMeta_new(0, vtable, flags)

\* RootMeta::inc without its fetch_add
RootMeta_inc_nothing(meta) == meta

\* RootMeta::inc: fetch_add(1), wrapping
RootMeta_inc(meta) == [meta EXCEPT !.refcount = (@ + 1) % Word]

\* RootMeta::dec: fetch_sub(1), wrapping
RootMeta_dec(meta) == [meta EXCEPT !.refcount = (@ + Word - 1) % Word]

\* RootMeta::unsync_is_unrooted
unsync_is_unrooted(meta) == meta.refcount = 0

\* RootMeta::is_new
is_new(meta) == BitAnd(meta.flags, NEW_BIT) # 0

\* RootMeta::is_new_and_unmarked
is_new_and_unmarked(meta) == BitAnd(meta.flags, BitOr(MARK_BIT, NEW_BIT)) = NEW_BIT

\* RootMeta::set_not_new without its store
set_not_new_nothing(meta) == meta

\* RootMeta::set_not_new
set_not_new(meta) == [meta EXCEPT !.flags = BitAnd(@, NEW_MASK)]

\* RootMeta::mark_and_needs_trace without its store of the mark
RootMeta_needs_trace_no_mark(meta) ==
    LET flags == meta.flags
        was_unmarked == BitAnd(flags, MARK_BIT) = 0
    IN  [ meta  |-> meta,
          needs |-> was_unmarked /\ BitAnd(flags, TRAVERSE_BIT) # 0 ]

\* RootMeta::mark_and_needs_trace storing MARK_BIT alone instead of flags | MARK_BIT
RootMeta_mark_clobbers_flags(meta) ==
    LET flags == meta.flags
        was_unmarked == BitAnd(flags, MARK_BIT) = 0
    IN  [ meta  |-> IF was_unmarked THEN [meta EXCEPT !.flags = MARK_BIT]
                    ELSE meta,
          needs |-> was_unmarked /\ BitAnd(flags, TRAVERSE_BIT) # 0 ]

\* RootMeta::mark_and_needs_trace: the metadata after the call and its result
RootMeta_mark_and_needs_trace(meta) ==
    LET flags == meta.flags
        was_unmarked == BitAnd(flags, MARK_BIT) = 0
    IN  [ meta  |-> IF was_unmarked THEN [meta EXCEPT !.flags = BitOr(flags, MARK_BIT)]
                    ELSE meta,
          needs |-> was_unmarked /\ BitAnd(flags, TRAVERSE_BIT) # 0 ]

\* RootMeta::unmark
RootMeta_unmark(meta) == [meta EXCEPT !.flags = BitAnd(@, MARK_MASK)]

\* RootMeta::vtable
RootMeta_vtable(meta) == BitAnd(meta.vtable, PTR_MASK)

\* ObjectMeta::new
ObjectMeta_new(vtable) == [ vtable |-> vtable ]

\* ObjectMeta::mark_and_needs_trace: the metadata after the call and its result
ObjectMeta_mark_and_needs_trace(meta) ==
    LET vtable == meta.vtable
        was_marked == BitAnd(vtable, MARK_BIT) = 0
    IN  [ meta  |-> IF ~was_marked THEN [meta EXCEPT !.vtable = BitOr(vtable, MARK_BIT)]
                    ELSE meta,
          needs |-> ~was_marked /\ BitAnd(vtable, TRAVERSE_BIT) # 0 ]

\* ObjectMeta::is_marked
ObjectMeta_is_marked(meta) == BitAnd(meta.vtable, MARK_BIT) # 0

\* ObjectMeta::unmark
ObjectMeta_unmark(meta) == [meta EXCEPT !.vtable = BitAnd(@, MARK_MASK)]

\* ObjectMeta::vtable
ObjectMeta_vtable(meta) == BitAnd(meta.vtable, PTR_MASK)

(***************************************************************************)
(* The managed objects.  An object is "free" (not yet allocated), "live"   *)
(* or "destroyed"; `drops` counts the runs of its destructor.  Its edges   *)
(* are the Gc / GcAtomic fields its trace() pushes.                        *)
(***************************************************************************)
FreeObject == [ st |-> "free", trav |-> FALSE, owner |-> 0, edges |-> {}, drops |-> 0 ]

\* the vtable pointer of the Trace impl of an object's type (4-aligned)
TypeVtable(trav) == IF trav THEN 8 ELSE 4

\* Trace::trace: the children pushed to the trace stack
trace(o, ptr) == SeqOf(o[ptr].edges)

\* dropping the Box<Trace> of an address: the destructor runs
destroy(o, ptrs) ==
    [a \in Addrs |-> IF a \in ptrs
                     THEN [o[a] EXCEPT !.st = "destroyed", !.drops = @ + 1]
                     ELSE o[a]]

\* write() without `| flags`: the record carries the bare address
write_without_flags(o, addr, isnew, flags) ==
    [ ptr    |-> addr * (2 ^ ptr_shift),
      vtable |-> IF isnew /\ o[addr].trav
                 THEN BitOr(TypeVtable(o[addr].trav), TRAVERSE_BIT)
                 ELSE TypeVtable(o[addr].trav) ]

\* appthread.rs write(): the journal record of an object
write(o, addr, isnew, flags) ==
    [ ptr    |-> BitOr(addr * (2 ^ ptr_shift), flags),
      vtable |-> IF isnew /\ o[addr].trav
                 THEN BitOr(TypeVtable(o[addr].trav), TRAVERSE_BIT)
                 ELSE TypeVtable(o[addr].trav) ]

(***************************************************************************)
(* youngheap.rs: the young generation.  The root map is a function from    *)
(* addresses to RootMeta or Absent.  The workers of a phase run on         *)
(* disjoint shards and are joined before the phase returns; a phase is     *)
(* modelled by its result.                                                 *)
(***************************************************************************)
Present(map) == { a \in Addrs : map[a] # Absent }

\* read_journals, the match on one entry: the root map and the deferred buffer after it
apply_entry(rootmap, deferredbuf, entry) ==
    LET kind == BitAnd(entry.ptr, FLAGS_MASK)
        ptr  == trie_ptr(entry)
    IN  CASE kind = NEW_INC ->
               [ roots    |-> [rootmap EXCEPT ![ptr] = RootMeta_one(entry.vtable, NEW_BIT)],
                 deferred |-> deferredbuf ]
          [] kind = NEW_FLAGS ->
               [ roots    |-> [rootmap EXCEPT ![ptr] = RootMeta_zero(entry.vtable, NEW_BIT)],
                 deferred |-> deferredbuf ]
          [] kind = INC ->
               LET meta == IF rootmap[ptr] = Absent
                           THEN RootMeta_zero(entry.vtable, 0)
                           ELSE rootmap[ptr]
               IN  [ roots    |-> [rootmap EXCEPT ![ptr] = RootMeta_inc(meta)],
                     deferred |-> deferredbuf ]
          [] kind = DEC ->
               [ roots |-> rootmap, deferred |-> Append(deferredbuf, entry) ]

\* YoungHeap::mark, the inner loop: pop the trace stack until it is empty
RECURSIVE young_trace(_, _, _)
young_trace(rootmap, stack, o) ==
    IF stack = << >> THEN rootmap
    ELSE LET ptr  == stack[Len(stack)]
             rest == SubSeq(stack, 1, Len(stack) - 1)
         IN  IF rootmap[ptr] = Absent
             THEN young_trace(rootmap, rest, o)
             ELSE LET r == RootMeta_mark_and_needs_trace(rootmap[ptr])
                  IN  young_trace([rootmap EXCEPT ![ptr] = r.meta],
                                  IF r.needs THEN rest \o trace(o, ptr) ELSE rest, o)

\* YoungHeap::mark, the loop over the entries of the shards
RECURSIVE young_mark_entries(_, _, _)
young_mark_entries(rootmap, ptrs, o) ==
    IF ptrs = << >> THEN rootmap
    ELSE LET root_ptr  == Head(ptrs)
             root_meta == rootmap[root_ptr]
         IN  IF ~unsync_is_unrooted(root_meta) \/ ~is_new(root_meta)
             THEN LET r == RootMeta_mark_and_needs_trace(root_meta)
                      marked == [rootmap EXCEPT ![root_ptr] = r.meta]
                  IN  young_mark_entries(
                          IF r.needs THEN young_trace(marked, trace(o, root_ptr), o)
                          ELSE marked,
                          Tail(ptrs), o)
             ELSE young_mark_entries(rootmap, Tail(ptrs), o)

\* YoungHeap::mark
YoungHeap_mark(rootmap, o) == young_mark_entries(rootmap, SeqOf(Present(rootmap)), o)

\* the closure of retain_if without its second branch: unrooted entries stay
young_sweep_rule_no_remove(meta) ==
    IF is_new_and_unmarked(meta) THEN "drop" ELSE "keep"

\* YoungHeap::sweep, what retain_if does to one entry: "drop", "remove" or "keep"
young_sweep_rule(meta) ==
    IF is_new_and_unmarked(meta) THEN "drop"
    ELSE IF ~is_new(meta) /\ unsync_is_unrooted(meta) THEN "remove"
    ELSE "keep"

\* YoungHeap::sweep: the root map after it, the addresses whose destructor ran,
\* and the two counters it returns
YoungHeap_sweep(rootmap) ==
    LET dropped == { a \in Present(rootmap) : young_sweep_rule(rootmap[a]) = "drop" }
        kept    == { a \in Present(rootmap) : young_sweep_rule(rootmap[a]) = "keep" }
    IN  [ roots       |-> [a \in Addrs |-> IF a \in kept
                                           THEN RootMeta_unmark(rootmap[a]) ELSE Absent],
          dropped     |-> dropped,
          young_count |-> Cardinality({ a \in kept : is_new(rootmap[a]) }),
          drop_count  |-> Cardinality(dropped) ]

\* YoungHeap::merge_deferred: the root map after every deferred decrement, and
\* whether a decrement found no entry (the unreachable!() of the worker)
RECURSIVE YoungHeap_merge_deferred(_, _)
YoungHeap_merge_deferred(rootmap, deferredbuf) ==
    IF deferredbuf = << >> THEN [ roots |-> rootmap, panicked |-> FALSE ]
    ELSE LET ptr == trie_ptr(Head(deferredbuf)) IN
         IF rootmap[ptr] # Absent
         THEN YoungHeap_merge_deferred([rootmap EXCEPT ![ptr] = RootMeta_dec(@)],
                                       Tail(deferredbuf))
         ELSE [ roots    |-> YoungHeap_merge_deferred(rootmap, Tail(deferredbuf)).roots,
                panicked |-> TRUE ]

\* the test of the promotion loop without its refcount half: every NEW entry
promotable_all_new(rootmap) ==
    { a \in Present(rootmap) : is_new(rootmap[a]) }

\* the test of the promotion loop without its is_new half: every rooted entry
promotable_all_rooted(rootmap) ==
    { a \in Present(rootmap) : ~unsync_is_unrooted(rootmap[a]) }

\* YoungHeap::major_collection, the promotion loop: the entries it promotes
promotable(rootmap) ==
    { a \in Present(rootmap) : ~unsync_is_unrooted(rootmap[a]) /\ is_new(rootmap[a]) }

\* YoungHeap::major_collection, the promotion loop
promote(rootmap, maturemap) ==
    LET moved == promotable(rootmap) IN
    [ roots  |-> [a \in Addrs |-> IF a \in moved THEN set_not_new(rootmap[a])
                                  ELSE rootmap[a]],
      \* ParHeap::add_object
      mature |-> [a \in Addrs |-> IF a \in moved
                                  THEN ObjectMeta_new(RootMeta_vtable(rootmap[a]))
                                  ELSE maturemap[a]] ]

(***************************************************************************)
(* parheap.rs: the mature generation.                                      *)
(***************************************************************************)
\* ParHeap::mark, the inner loop over the trace stack
RECURSIVE mature_trace(_, _, _)
mature_trace(maturemap, stack, o) ==
    IF stack = << >> THEN maturemap
    ELSE LET ptr  == stack[Len(stack)]
             rest == SubSeq(stack, 1, Len(stack) - 1)
         IN  IF maturemap[ptr] = Absent
             THEN mature_trace(maturemap, rest, o)
             ELSE LET r == ObjectMeta_mark_and_needs_trace(maturemap[ptr])
                  IN  mature_trace([maturemap EXCEPT ![ptr] = r.meta],
                                   IF r.needs THEN rest \o trace(o, ptr) ELSE rest, o)

\* ParHeap::mark, the loop over the root shards: both maps after it
RECURSIVE mature_mark_entries(_, _, _, _)
mature_mark_entries(rootmap, maturemap, ptrs, o) ==
    IF ptrs = << >> THEN [ roots |-> rootmap, mature |-> maturemap ]
    ELSE LET root_ptr  == Head(ptrs)
             root_meta == rootmap[root_ptr]
         IN  IF ~unsync_is_unrooted(root_meta)
             THEN LET r == RootMeta_mark_and_needs_trace(root_meta)
                      marked == [rootmap EXCEPT ![root_ptr] = r.meta]
                  IN  mature_mark_entries(
                          marked,
                          IF r.needs THEN mature_trace(maturemap, trace(o, root_ptr), o)
                          ELSE maturemap,
                          Tail(ptrs), o)
             ELSE mature_mark_entries(rootmap, maturemap, Tail(ptrs), o)

\* ParHeap::mark
ParHeap_mark(rootmap, maturemap, o) ==
    mature_mark_entries(rootmap, maturemap, SeqOf(Present(rootmap)), o)

\* ParHeap::sweep: the mature map after it, the addresses whose destructor ran,
\* and the two counters it returns
ParHeap_sweep(maturemap) ==
    LET dropped == { a \in Present(maturemap) : ~ObjectMeta_is_marked(maturemap[a]) } IN
    [ mature     |-> [a \in Addrs |-> IF a \in Present(maturemap) \ dropped
                                      THEN ObjectMeta_unmark(maturemap[a]) ELSE Absent],
      dropped    |-> dropped,
      heap_size  |-> Cardinality(Present(maturemap)),
      drop_count |-> Cardinality(dropped) ]

(***************************************************************************)
(* Spec: the mutator threads and the collector thread.                     *)
(***************************************************************************)
VARIABLES
    mstatus,   \* per mutator: "new", "running", "dropping" (its Sender is being
               \* dropped), "done", "failed" (could not hand over its journal)
    mroots,    \* per mutator and address: the GcRoot handles it holds
    mops,      \* allocations, clones and loads done so far, by all mutators
    journal,   \* per mutator: the BufferQueue of its journal
    obj,       \* the managed objects
    chan,      \* the mpsc channel of journal receivers, as mutator ids
    gc,        \* the collector thread: pc and the locals of gc_thread / read_journals
    roots,     \* YoungHeap.roots
    mature,    \* ParHeap.objects
    deferred,  \* YoungHeap.deferred
    logger,    \* the StatsLogger: total of add_dropped
    applied,   \* history, per mutator: the entries read_journals got from its journal
    posted,    \* history, per mutator: the entries it sent
    drain_rooted,   \* history: addresses with refcount > 0 when the last drain completed
    iter_destroyed  \* history: addresses destroyed since the last drain completed

gvars == << mstatus, mroots, mops, journal, obj, chan, gc, roots, mature, deferred,
            logger, applied, posted, drain_rooted, iter_destroyed >>

(***************************************************************************)
(* The parallel mark phase at the grain of its workers: YoungHeap::mark    *)
(* and ParHeap::mark hand one shard of the root map to each worker of the  *)
(* pool; the workers read and write the flag words of the shared map       *)
(* without synchronisation.                                                *)
(***************************************************************************)
NumWorkers == 2         \* pool threads of a mark phase

Workers == 1..NumWorkers

VARIABLES
    workers,     \* per pool thread: its position in the closure of mark, the rest of
                 \* its shard, its TraceStack, the entry in hand and the word it read
    mark_heap,   \* the mark phase in progress: "none", "young" or "mature"
    mark_start,  \* history: the root map and the mature map when the phase began
    traced       \* history, per worker and address: the calls of trace(), capped at 2

kvars == << workers, mark_heap, mark_start, traced >>

WorkerIdle == [ pc |-> "idle", shard |-> << >>, stack |-> << >>, cur |-> 0, seen |-> 0 ]

\* no mark phase is being followed at the grain of its workers
MarkIdle ==
    /\ workers = [w \in Workers |-> WorkerIdle]
    /\ mark_heap = "none"
    /\ mark_start = [ roots  |-> [a \in Addrs |-> Absent],
                      mature |-> [a \in Addrs |-> Absent] ]
    /\ traced = [w \in Workers |-> [a \in Addrs |-> 0]]

vars == << jvars, gvars, kvars >>

NoJournal == [ none |-> TRUE ]

GcInit ==
    /\ mstatus = [m \in Mutators |-> "new"]
    /\ mroots = [m \in Mutators |-> [a \in Addrs |-> 0]]
    /\ mops = 0
    /\ journal = [m \in Mutators |-> NoJournal]
    /\ obj = [a \in Addrs |-> FreeObject]
    /\ chan = << >>
    /\ gc = [ pc |-> "recv_first", journals |-> << >>, sleep_dur |-> 0,
              entry_count |-> 0, round |-> 0, jidx |-> 1, taken |-> 0, rx |-> RxIdle,
              young_count |-> 0, drop_count |-> 0, final |-> FALSE ]
    /\ roots = [a \in Addrs |-> Absent]
    /\ mature = [a \in Addrs |-> Absent]
    /\ deferred = << >>
    /\ logger = [ dropped |-> 0 ]
    /\ applied = [m \in Mutators |-> << >>]
    /\ posted = [m \in Mutators |-> << >>]
    /\ drain_rooted = {}
    /\ iter_destroyed = {}

GcStopped == gc.pc \in {"done", "panicked"}

\* AppThread::spawn_from_gc, the head of the thread: make_journal and tx.send(jrx)
MutStart(m) ==
    /\ mstatus[m] = "new"
    /\ \A n \in Mutators : n < m => mstatus[n] # "new"   \* the threads are alike
    /\ IF GcStopped
       THEN /\ mstatus' = [mstatus EXCEPT ![m] = "failed"]
            /\ UNCHANGED << journal, chan >>
       ELSE /\ mstatus' = [mstatus EXCEPT ![m] = "running"]
            /\ journal' = [journal EXCEPT ![m] = make_journal(JOURNAL_BUFFER_SIZE)]
            /\ chan' = Append(chan, m)
    /\ UNCHANGED << jvars, kvars, mroots, mops, obj, gc, roots, mature, deferred, logger, applied,
                    posted, drain_rooted, iter_destroyed >>

\* tx.send of write(): the record goes to the mutator's journal
Post(m, entry) ==
    /\ journal' = [journal EXCEPT ![m] = Sender_send(journal[m], entry)]
    /\ posted' = [posted EXCEPT ![m] = Append(@, entry)]

FreeAddrs == { a \in Addrs : obj[a].st = "free" }
NextAddr == CHOOSE a \in FreeAddrs : \A b \in FreeAddrs : a <= b

Allocated(m, trav) ==
    [obj EXCEPT ![NextAddr] = [ st |-> "live", trav |-> trav, owner |-> m,
                                edges |-> {}, drops |-> 0 ]]

\* GcRoot::new
GcRoot_new(m, trav) ==
    /\ mstatus[m] = "running" /\ mops < MaxOps /\ FreeAddrs # {}
    /\ obj' = Allocated(m, trav)
    /\ Post(m, write(obj', NextAddr, TRUE, BitOr(NEW_BIT, INC_BIT)))
    /\ mroots' = [mroots EXCEPT ![m][NextAddr] = @ + 1]
    /\ mops' = mops + 1
    /\ UNCHANGED << jvars, kvars, mstatus, chan, gc, roots, mature, deferred, logger, applied,
                    drain_rooted, iter_destroyed >>

\* Gc::new
Gc_new(m, trav) ==
    /\ mstatus[m] = "running" /\ mops < MaxOps /\ FreeAddrs # {}
    /\ obj' = Allocated(m, trav)
    /\ Post(m, write(obj', NextAddr, TRUE, NEW_BIT))
    /\ mops' = mops + 1
    /\ UNCHANGED << jvars, kvars, mstatus, mroots, chan, gc, roots, mature, deferred, logger, applied,
                    drain_rooted, iter_destroyed >>

\* GcAtomic::new
GcAtomic_new(m, trav) ==
    /\ mstatus[m] = "running" /\ mops < MaxOps /\ FreeAddrs # {}
    /\ obj' = Allocated(m, trav)
    /\ Post(m, write(obj', NextAddr, TRUE, NEW_BIT))
    /\ mops' = mops + 1
    /\ UNCHANGED << jvars, kvars, mstatus, mroots, chan, gc, roots, mature, deferred, logger, applied,
                    drain_rooted, iter_destroyed >>

\* Clone for GcRoot (GcRoot::from_raw)
GcRoot_clone(m, a) ==
    /\ mstatus[m] = "running" /\ mops < MaxOps /\ mroots[m][a] > 0
    /\ Post(m, write(obj, a, FALSE, INC_BIT))
    /\ mroots' = [mroots EXCEPT ![m][a] = @ + 1]
    /\ mops' = mops + 1
    /\ UNCHANGED << jvars, kvars, mstatus, obj, chan, gc, roots, mature, deferred, logger, applied,
                    drain_rooted, iter_destroyed >>

\* GcAtomic::load_into_root, of a live object whose pointer is in an atomic cell the
\* mutator can reach (GcAtomic::new, store_from_root, store_from_gc put it there)
load_into_root(m, a) ==
    /\ mstatus[m] = "running" /\ mops < MaxOps
    /\ obj[a].st = "live"
    /\ Post(m, write(obj, a, FALSE, INC_BIT))
    /\ mroots' = [mroots EXCEPT ![m][a] = @ + 1]
    /\ mops' = mops + 1
    /\ UNCHANGED << jvars, kvars, mstatus, obj, chan, gc, roots, mature, deferred, logger, applied,
                    drain_rooted, iter_destroyed >>

\* Drop for GcRoot
GcRoot_drop(m, a) ==
    /\ mstatus[m] = "running" /\ mroots[m][a] > 0
    /\ Post(m, write(obj, a, FALSE, 0))
    /\ mroots' = [mroots EXCEPT ![m][a] = @ - 1]
    /\ UNCHANGED << jvars, kvars, mstatus, mops, obj, chan, gc, roots, mature, deferred, logger,
                    applied, drain_rooted, iter_destroyed >>

\* a store to a Gc / GcAtomic field of an object the mutator allocated
\* (Segment::join_to, Balloon::twist, Balloon::complete)
Link(m, p, c) ==
    /\ mstatus[m] = "running"
    /\ obj[p].st = "live" /\ obj[p].owner = m /\ obj[p].trav
    /\ obj[c].st = "live" /\ obj[c].owner = m
    /\ p # c /\ c \notin obj[p].edges
    /\ obj' = [obj EXCEPT ![p].edges = @ \cup {c}]
    /\ UNCHANGED << jvars, kvars, mstatus, mroots, mops, journal, chan, gc, roots, mature, deferred,
                    logger, applied, posted, drain_rooted, iter_destroyed >>

\* the thread function returns; Drop for Sender, first store: mark_completed
MutFinishMark(m) ==
    /\ mstatus[m] = "running"
    /\ mstatus' = [mstatus EXCEPT ![m] = "dropping"]
    /\ journal' = [journal EXCEPT ![m] = mark_completed(journal[m])]
    /\ UNCHANGED << jvars, kvars, mroots, mops, obj, chan, gc, roots, mature, deferred, logger,
                    applied, posted, drain_rooted, iter_destroyed >>

\* Drop for Sender, second store: hup
MutFinishHup(m) ==
    /\ mstatus[m] = "dropping"
    /\ mstatus' = [mstatus EXCEPT ![m] = "done"]
    /\ journal' = [journal EXCEPT ![m].hup = TRUE]
    /\ UNCHANGED << jvars, kvars, mroots, mops, obj, chan, gc, roots, mature, deferred, logger,
                    applied, posted, drain_rooted, iter_destroyed >>

(***************************************************************************)
(* gcthread.rs: gc_thread.  pc of the collector:                           *)
(*   "recv_first"  blocked in rx_chan.recv()                               *)
(*   "loop"        at the head of the while loop                           *)
(*   "drain"       in read_journals, inside or between try_recv calls      *)
(*   "end_drain"   at journals.retain, then the sleep / back-off           *)
(*   "mark", "sweep", "merge"                 minor_collection             *)
(*   "promote", "mature_mark", "mature_sweep" major_collection             *)
(*   "done"        gc_thread has returned the logger                       *)
(*   "panicked"    a worker hit unreachable!()                             *)
(***************************************************************************)
MutUnchanged == UNCHANGED << mstatus, mroots, mops, obj, posted >>

\* gc.add_journal(rx_chan.recv().expect(..))
GcRecvFirst ==
    /\ gc.pc = "recv_first"
    /\ chan # << >>
    /\ gc' = [gc EXCEPT !.pc = "loop", !.journals = Append(@, Head(chan))]
    /\ chan' = Tail(chan)
    /\ MutUnchanged
    /\ UNCHANGED << jvars, kvars, journal, roots, mature, deferred, logger, applied, drain_rooted,
                    iter_destroyed >>

\* while gc.num_journals() > 0 { if let Ok(journal) = rx_chan.try_recv() {..};
\* then read_journals starts.  After the loop: the final collections.
GcLoop ==
    /\ gc.pc = "loop"
    /\ IF Len(gc.journals) > 0
       THEN /\ gc' = [gc EXCEPT !.pc = "drain",
                                !.journals = IF chan # << >> THEN Append(@, Head(chan)) ELSE @,
                                !.entry_count = 0, !.round = 0, !.jidx = 1, !.taken = 0,
                                !.rx = RxIdle]
            /\ chan' = IF chan # << >> THEN Tail(chan) ELSE chan
       ELSE /\ gc' = [gc EXCEPT !.pc = "mark", !.final = TRUE]
            /\ chan' = chan
    /\ drain_rooted' = {}
    /\ iter_destroyed' = {}
    /\ MutUnchanged
    /\ UNCHANGED << jvars, kvars, journal, roots, mature, deferred, logger, applied >>

\* read_journals: the collector state when the inner for loop over one journal ends
NextJournal(g) ==
    IF g.jidx < Len(g.journals)
    THEN [g EXCEPT !.jidx = @ + 1, !.taken = 0, !.rx = RxIdle]
    ELSE IF g.round + 1 < JOURNAL_RUN
         THEN [g EXCEPT !.round = @ + 1, !.jidx = 1, !.taken = 0, !.rx = RxIdle]
         ELSE [g EXCEPT !.pc = "end_drain", !.round = 0, !.jidx = 1, !.taken = 0,
                        !.rx = RxIdle]

\* read_journals: one step of journal.iter_until_empty().take(BUFFER_RUN) on the
\* current journal, and the match on the entry when try_recv returns one
GcDrain ==
    /\ gc.pc = "drain"
    /\ LET m == gc.journals[gc.jidx]
           s == try_recv_step(journal[m], gc.rx)
       IN  /\ journal' = [journal EXCEPT ![m] = s.q]
           /\ IF s.r.pc # "idle"
              THEN /\ gc' = [gc EXCEPT !.rx = s.r]
                   /\ UNCHANGED << roots, deferred, applied >>
              ELSE IF s.r.res = "ok"
              THEN LET e == apply_entry(roots, deferred, s.r.item)
                       g == [gc EXCEPT !.entry_count = @ + 1, !.taken = @ + 1,
                                       !.rx = RxIdle]
                   IN  /\ roots' = e.roots
                       /\ deferred' = e.deferred
                       /\ applied' = [applied EXCEPT ![m] = Append(@, s.r.item)]
                       /\ gc' = IF g.taken = BUFFER_RUN THEN NextJournal(g) ELSE g
              ELSE /\ gc' = NextJournal(gc)
                   /\ UNCHANGED << roots, deferred, applied >>
    /\ MutUnchanged
    /\ UNCHANGED << jvars, kvars, chan, mature, logger, drain_rooted, iter_destroyed >>

\* the end of the drain in a gc_thread that skips the minor collection of an
\* iteration in which nothing was read
GcEndDrain_skip_idle_minor ==
    /\ gc.pc = "end_drain"
    /\ gc' = [gc EXCEPT
                !.pc = IF gc.entry_count = 0 THEN "loop" ELSE "mark",
                !.journals = SelectSeq(@, LAMBDA m : ~is_disconnected(journal[m])),
                !.sleep_dur = IF gc.entry_count = 0
                              THEN Min(gc.sleep_dur * 2, MAX_SLEEP_DUR)
                              ELSE MIN_SLEEP_DUR]
    /\ drain_rooted' = { a \in Present(roots) : roots[a].refcount > 0 }
    /\ iter_destroyed' = {}
    /\ MutUnchanged
    /\ UNCHANGED << jvars, kvars, journal, chan, roots, mature, deferred, logger, applied >>

\* read_journals: journals.retain(|j| !j.is_disconnected()); then, in gc_thread,
\* the sleep and the back-off of sleep_dur
GcEndDrain ==
    /\ gc.pc = "end_drain"
    /\ gc' = [gc EXCEPT
                !.pc = "mark",
                !.journals = SelectSeq(@, LAMBDA m : ~is_disconnected(journal[m])),
                !.sleep_dur = IF gc.entry_count = 0
                              THEN Min(gc.sleep_dur * 2, MAX_SLEEP_DUR)
                              ELSE MIN_SLEEP_DUR]
    /\ drain_rooted' = { a \in Present(roots) : roots[a].refcount > 0 }
    /\ iter_destroyed' = {}
    /\ MutUnchanged
    /\ UNCHANGED << jvars, kvars, journal, chan, roots, mature, deferred, logger, applied >>

\* minor_collection: self.mark(pool)
GcMark ==
    /\ gc.pc = "mark"
    /\ roots' = YoungHeap_mark(roots, obj)
    /\ gc' = [gc EXCEPT !.pc = "sweep"]
    /\ MutUnchanged
    /\ UNCHANGED << jvars, kvars, journal, chan, mature, deferred, logger, applied, drain_rooted,
                    iter_destroyed >>

\* minor_collection: self.sweep(pool)
GcSweep ==
    /\ gc.pc = "sweep"
    /\ LET r == YoungHeap_sweep(roots) IN
         /\ roots' = r.roots
         /\ obj' = destroy(obj, r.dropped)
         /\ iter_destroyed' = iter_destroyed \cup r.dropped
         /\ gc' = [gc EXCEPT !.pc = "merge", !.young_count = r.young_count,
                             !.drop_count = r.drop_count]
    /\ UNCHANGED << jvars, kvars, mstatus, mroots, mops, posted, journal, chan, mature, deferred,
                    logger, applied, drain_rooted >>

\* the test of gc_thread without its comparison of sleep_dur
wants_major_any_sleep(sleep_dur, young_count) ==
    young_count >= MAJOR_COLLECT_THRESHOLD

\* gc_thread: the test that decides on a major collection inside the loop
wants_major(sleep_dur, young_count) ==
    sleep_dur # MIN_SLEEP_DUR /\ young_count >= MAJOR_COLLECT_THRESHOLD

\* minor_collection: self.merge_deferred(pool); logger.add_dropped; then, in
\* gc_thread, the choice between a major collection and the next iteration
GcMerge ==
    /\ gc.pc = "merge"
    /\ LET r == YoungHeap_merge_deferred(roots, deferred) IN
         /\ roots' = r.roots
         /\ IF r.panicked
            THEN /\ gc' = [gc EXCEPT !.pc = "panicked"]
                 /\ UNCHANGED << logger, deferred >>   \* deferred.clear() is not reached
            ELSE /\ deferred' = << >>
                 /\ logger' = [logger EXCEPT !.dropped = @ + gc.drop_count]
                 /\ gc' = [gc EXCEPT !.pc = IF gc.final \/ wants_major(gc.sleep_dur,
                                                                        gc.young_count)
                                            THEN "promote" ELSE "loop",
                                     !.drop_count = 0]
    /\ MutUnchanged
    /\ UNCHANGED << jvars, kvars, journal, chan, mature, applied, drain_rooted, iter_destroyed >>

\* major_collection: the promotion loop
GcPromote ==
    /\ gc.pc = "promote"
    /\ LET r == promote(roots, mature) IN
         /\ roots' = r.roots
         /\ mature' = r.mature
    /\ gc' = [gc EXCEPT !.pc = "mature_mark"]
    /\ MutUnchanged
    /\ UNCHANGED << jvars, kvars, journal, chan, deferred, logger, applied, drain_rooted,
                    iter_destroyed >>

\* ParHeap::collect: self.mark(thread_pool, roots)
GcMatureMark ==
    /\ gc.pc = "mature_mark"
    /\ LET r == ParHeap_mark(roots, mature, obj) IN
         /\ roots' = r.roots
         /\ mature' = r.mature
    /\ gc' = [gc EXCEPT !.pc = "mature_sweep"]
    /\ MutUnchanged
    /\ UNCHANGED << jvars, kvars, journal, chan, deferred, logger, applied, drain_rooted,
                    iter_destroyed >>

\* ParHeap::collect: self.sweep(thread_pool); logger.add_dropped; then the next
\* iteration, or the return of gc_thread after the final collections
GcMatureSweep ==
    /\ gc.pc = "mature_sweep"
    /\ LET r == ParHeap_sweep(mature) IN
         /\ mature' = r.mature
         /\ obj' = destroy(obj, r.dropped)
         /\ iter_destroyed' = iter_destroyed \cup r.dropped
         /\ logger' = [logger EXCEPT !.dropped = @ + r.drop_count]
    /\ gc' = [gc EXCEPT !.pc = IF gc.final THEN "done" ELSE "loop"]
    /\ UNCHANGED << jvars, kvars, mstatus, mroots, mops, posted, journal, chan, roots, deferred,
                    applied, drain_rooted >>

MutatorNext ==
    \E m \in Mutators :
        \/ MutStart(m)
        \/ \E trav \in TravChoices : GcRoot_new(m, trav) \/ Gc_new(m, trav) \/ GcAtomic_new(m, trav)
        \/ \E a \in Addrs : GcRoot_clone(m, a) \/ load_into_root(m, a) \/ GcRoot_drop(m, a)
        \/ \E p, c \in Addrs : Link(m, p, c)
        \/ MutFinishMark(m)
        \/ MutFinishHup(m)

CollectorNext ==
    \/ GcRecvFirst \/ GcLoop \/ GcDrain \/ GcEndDrain
    \/ GcMark \/ GcSweep \/ GcMerge
    \/ GcPromote \/ GcMatureMark \/ GcMatureSweep

\* the journal-level variables are not used by Spec
JournalIdle ==
    /\ jcap = 0
    /\ jq = make_journal(jcap) /\ jtx = "alive" /\ jrx = RxIdle /\ jrx_alive = TRUE
    /\ jsent = << >> /\ jrecvd = << >> /\ jearly = FALSE /\ jquiet = TRUE

Init == GcInit /\ JournalIdle /\ MarkIdle

Next == MutatorNext \/ CollectorNext

Spec == Init /\ [][Next]_vars

(***************************************************************************)
(* The actions of JournalSpec; the collector's variables stay as built.     *)
(***************************************************************************)
\* tx.send(i)
JSend ==
    /\ jtx = "alive"
    /\ Len(jsent) < MaxSend
    /\ jq' = Sender_send(jq, Len(jsent) + 1)
    /\ jsent' = Append(jsent, Len(jsent) + 1)
    /\ jquiet' = FALSE
    /\ UNCHANGED << gvars, kvars, jtx, jrx, jrx_alive, jrecvd, jearly, jcap >>

\* drop(tx), first store: mark_completed
JDropMark ==
    /\ jtx = "alive"
    /\ jq' = mark_completed(jq)
    /\ jtx' = "dropping"
    /\ UNCHANGED << gvars, kvars, jrx, jrx_alive, jsent, jrecvd, jearly, jcap, jquiet >>

\* drop(tx), second store: hup; then the Sender's Arc is released
JDropHup ==
    /\ jtx = "dropping"
    /\ jq' = LET h == [jq EXCEPT !.hup = TRUE] IN
             IF jrx_alive THEN h ELSE BufferQueue_drop(h)
    /\ jtx' = "dropped"
    /\ UNCHANGED << gvars, kvars, jrx, jrx_alive, jsent, jrecvd, jearly, jcap, jquiet >>

\* one step of rx.try_recv()
JTryRecv ==
    /\ jrx_alive
    /\ LET s == try_recv_step(jq, jrx) IN
         /\ jq' = s.q
         /\ jrx' = s.r
         /\ jrecvd' = IF s.r.pc = "idle" /\ s.r.res = "ok"
                      THEN Append(jrecvd, s.r.item) ELSE jrecvd
    /\ jearly' = (jearly \/ jtx # "dropped")
    /\ jquiet' = (jrx.pc = "idle" \/ jquiet)
    /\ UNCHANGED << gvars, kvars, jtx, jrx_alive, jsent, jcap >>

\* drop(rx), between two calls
JDropRx ==
    /\ jrx_alive
    /\ jrx.pc = "idle"
    /\ jrx_alive' = FALSE
    /\ jq' = IF jtx = "dropped" THEN BufferQueue_drop(jq) ELSE jq
    /\ UNCHANGED << gvars, kvars, jtx, jrx, jsent, jrecvd, jearly, jcap, jquiet >>

JournalNext == JSend \/ JDropMark \/ JDropHup \/ JTryRecv \/ JDropRx

JournalSpecInit == JournalInit /\ GcInit /\ MarkIdle

JournalSpec == JournalSpecInit /\ [][JournalNext]_vars

(***************************************************************************)
(* MarkSpec: one mark phase, minor or mature, run by NumWorkers workers    *)
(* whose reads and writes of the flag words interleave freely.  The object *)
(* graph and the two maps are drawn from the shapes the collector can      *)
(* leave them in when a mark phase begins; the mutator and journal         *)
(* variables play no part.                                                 *)
(***************************************************************************)
\* the objects: every one live, the traversible ones with any set of edges
MarkObjects ==
    { o \in [Addrs -> [ st : {"live"}, trav : BOOLEAN, owner : {1},
                        edges : SUBSET Addrs, drops : {0} ]] :
        \A a \in Addrs : o[a].trav \/ o[a].edges = {} }

\* the root-map entries of an address when a minor mark begins: NEW entries, entries
\* that lost NEW in a promotion, and rooted ones a major collection left marked
YoungMarkEntries(o, a) ==
    LET vtable == write(o, a, TRUE, NEW_FLAGS).vtable IN
    { Absent }
      \cup { RootMeta_new(rc, vtable, flags) : rc \in 0..1, flags \in {0, NEW_BIT} }
      \cup { RootMeta_new(1, vtable, MARK_BIT) }

\* the root-map entries of an address when a mature mark begins: the promotion loop
\* has cleared NEW on every rooted entry and the minor sweep every mark
MatureMarkEntries(o, a) ==
    LET vtable == write(o, a, TRUE, NEW_FLAGS).vtable IN
    { Absent, RootMeta_new(1, vtable, 0), RootMeta_new(0, vtable, 0),
      RootMeta_new(0, vtable, NEW_BIT) }

\* the mature-map entries of an address when a mature mark begins: only what the
\* promotion loop has just added
MatureObjects(rootmap, a) ==
    { Absent } \cup
    IF rootmap[a] # Absent /\ ~unsync_is_unrooted(rootmap[a])
    THEN { ObjectMeta_new(RootMeta_vtable(rootmap[a])) } ELSE { }

\* borrow_sharded(num_threads): the entries of the shard handed to worker w
shard(rootmap, w) ==
    SeqOf({ a \in Present(rootmap) : ((a - 1) % NumWorkers) + 1 = w })

MarkInit ==
    /\ JournalIdle
    /\ mstatus = [m \in Mutators |-> "new"]
    /\ mroots = [m \in Mutators |-> [a \in Addrs |-> 0]]
    /\ mops = 0
    /\ journal = [m \in Mutators |-> NoJournal]
    /\ chan = << >>
    /\ deferred = << >>
    /\ logger = [ dropped |-> 0 ]
    /\ applied = [m \in Mutators |-> << >>]
    /\ posted = [m \in Mutators |-> << >>]
    /\ drain_rooted = {}
    /\ iter_destroyed = {}
    /\ mark_heap \in {"young", "mature"}
    /\ gc = [ pc |-> IF mark_heap = "young" THEN "mark" ELSE "mature_mark",
              journals |-> << >>, sleep_dur |-> 0,
              entry_count |-> 0, round |-> 0, jidx |-> 1, taken |-> 0, rx |-> RxIdle,
              young_count |-> 0, drop_count |-> 0, final |-> FALSE ]
    /\ obj \in MarkObjects
    /\ roots \in [Addrs -> UNION { YoungMarkEntries(obj, a) \cup MatureMarkEntries(obj, a) :
                                     a \in Addrs }]
    /\ \A a \in Addrs : roots[a] \in IF mark_heap = "young"
                                     THEN YoungMarkEntries(obj, a)
                                     ELSE MatureMarkEntries(obj, a)
    /\ mature \in [Addrs -> { Absent } \cup { ObjectMeta_new(TypeVtable(t)) : t \in BOOLEAN }]
    /\ \A a \in Addrs : mature[a] \in IF mark_heap = "young" THEN { Absent }
                                      ELSE MatureObjects(roots, a)
    /\ workers = [w \in Workers |->
                    [ pc |-> "shard", shard |-> shard(roots, w), stack |-> << >>,
                      cur |-> 0, seen |-> 0 ]]
    /\ mark_start = [ roots |-> roots, mature |-> mature ]
    /\ traced = [w \in Workers |-> [a \in Addrs |-> 0]]

MarkFrame ==
    UNCHANGED << jvars, mstatus, mroots, mops, journal, obj, chan, deferred, logger,
                 applied, posted, drain_rooted, iter_destroyed, mark_heap, mark_start >>

\* the test at the head of the loop over a shard
is_mark_root(heap, meta) ==
    IF heap = "young" THEN ~unsync_is_unrooted(meta) \/ ~is_new(meta)
    ELSE ~unsync_is_unrooted(meta)

\* for (root_ptr, root_meta) in shard.iter(): the next entry and the test on it
MarkNextRoot(w) ==
    /\ workers[w].pc = "shard"
    /\ IF workers[w].shard = << >>
       THEN workers' = [workers EXCEPT ![w].pc = "done"]
       ELSE LET root_ptr == Head(workers[w].shard) IN
            IF is_mark_root(mark_heap, roots[root_ptr])
            THEN workers' = [workers EXCEPT ![w].pc = "root_get", ![w].cur = root_ptr,
                                            ![w].shard = Tail(@)]
            ELSE workers' = [workers EXCEPT ![w].shard = Tail(@)]
    /\ MarkFrame
    /\ UNCHANGED << gc, roots, mature, traced >>

\* root_meta.mark_and_needs_trace(): let flags = self.flags.get()
MarkRootGet(w) ==
    /\ workers[w].pc = "root_get"
    /\ workers' = [workers EXCEPT ![w].pc = "root_set",
                                  ![w].seen = roots[workers[w].cur].flags]
    /\ MarkFrame
    /\ UNCHANGED << gc, roots, mature, traced >>

\* root_meta.mark_and_needs_trace(): the store of the word read earlier with MARK
\* set, and object.trace(&mut stack) when the result is true
MarkRootSet(w) ==
    /\ workers[w].pc = "root_set"
    /\ LET cur  == workers[w].cur
           seen == [roots[cur] EXCEPT !.flags = workers[w].seen]
           r    == RootMeta_mark_and_needs_trace(seen)
       IN  /\ roots' = IF r.meta # seen THEN [roots EXCEPT ![cur] = r.meta] ELSE roots
           /\ IF r.needs
              THEN /\ workers' = [workers EXCEPT ![w].pc = "pop",
                                                 ![w].stack = trace(obj, cur)]
                   /\ traced' = [traced EXCEPT ![w][cur] = Min(@ + 1, 2)]
              ELSE /\ workers' = [workers EXCEPT ![w].pc = "shard"]
                   /\ UNCHANGED traced
    /\ MarkFrame
    /\ UNCHANGED << gc, mature >>

\* while let Some(obj) = stack.pop(): objects.get(ptr) and, when the entry is
\* there, the read of its word in mark_and_needs_trace
MarkPop(w) ==
    /\ workers[w].pc = "pop"
    /\ IF workers[w].stack = << >>
       THEN workers' = [workers EXCEPT ![w].pc = "shard"]
       ELSE LET stack == workers[w].stack
                ptr   == stack[Len(stack)]
                rest  == SubSeq(stack, 1, Len(stack) - 1)
                map   == IF mark_heap = "young" THEN roots ELSE mature
            IN  IF map[ptr] = Absent
                THEN workers' = [workers EXCEPT ![w].stack = rest]
                ELSE workers' = [workers EXCEPT
                                   ![w].stack = rest, ![w].pc = "child_set",
                                   ![w].cur = ptr,
                                   ![w].seen = IF mark_heap = "young" THEN roots[ptr].flags
                                               ELSE mature[ptr].vtable]
    /\ MarkFrame
    /\ UNCHANGED << gc, roots, mature, traced >>

\* meta.mark_and_needs_trace() on a child: the store, and object.trace(&mut stack)
\* when the result is true
MarkChildSet(w) ==
    /\ workers[w].pc = "child_set"
    /\ LET cur  == workers[w].cur
           seen == IF mark_heap = "young"
                   THEN [roots[cur] EXCEPT !.flags = workers[w].seen]
                   ELSE [mature[cur] EXCEPT !.vtable = workers[w].seen]
           r    == IF mark_heap = "young" THEN RootMeta_mark_and_needs_trace(seen)
                   ELSE ObjectMeta_mark_and_needs_trace(seen)
       IN  /\ IF mark_heap = "young"
              THEN /\ roots' = IF r.meta # seen THEN [roots EXCEPT ![cur] = r.meta]
                               ELSE roots
                   /\ UNCHANGED mature
              ELSE /\ mature' = IF r.meta # seen THEN [mature EXCEPT ![cur] = r.meta]
                                ELSE mature
                   /\ UNCHANGED roots
           /\ IF r.needs
              THEN /\ workers' = [workers EXCEPT ![w].pc = "pop",
                                                 ![w].stack = @ \o trace(obj, cur)]
                   /\ traced' = [traced EXCEPT ![w][cur] = Min(@ + 1, 2)]
              ELSE /\ workers' = [workers EXCEPT ![w].pc = "pop"]
                   /\ UNCHANGED traced
    /\ MarkFrame
    /\ UNCHANGED gc

\* one step of the closure given to scope.execute
MarkWorker(w) ==
    \/ MarkNextRoot(w)
    \/ MarkRootGet(w)
    \/ MarkRootSet(w)
    \/ MarkPop(w)
    \/ MarkChildSet(w)

\* pool.scoped returns without waiting for the closures it was given
MarkJoin_no_wait ==
    /\ mark_heap \in {"young", "mature"}
    /\ gc.pc \in {"mark", "mature_mark"}
    /\ gc' = [gc EXCEPT !.pc = IF mark_heap = "young" THEN "sweep" ELSE "mature_sweep"]
    /\ workers' = [w \in Workers |->
                     IF workers[w].pc = "done" THEN [workers[w] EXCEPT !.pc = "joined"]
                     ELSE workers[w]]
    /\ MarkFrame
    /\ UNCHANGED << roots, mature, traced >>

\* pool.scoped returns: every closure has run to its end and mark() returns, so
\* that the collector goes on to the sweep
MarkJoin ==
    /\ mark_heap \in {"young", "mature"}
    /\ gc.pc \in {"mark", "mature_mark"}
    /\ \A w \in Workers : workers[w].pc = "done"
    /\ gc' = [gc EXCEPT !.pc = IF mark_heap = "young" THEN "sweep" ELSE "mature_sweep"]
    /\ workers' = [w \in Workers |-> [workers[w] EXCEPT !.pc = "joined"]]
    /\ MarkFrame
    /\ UNCHANGED << roots, mature, traced >>

\* the workers, the return of pool.scoped, and the sweep that follows the mark in
\* minor_collection and in ParHeap::collect
MarkNext ==
    \/ \E w \in Workers : MarkWorker(w)
    \/ MarkJoin
    \/ GcSweep
    \/ GcMatureSweep

MarkSpec == MarkInit /\ [][MarkNext]_vars

\* every pool thread that can take a step takes one in the end, and so does the
\* collector thread once pool.scoped can return
MarkFairSpec ==
    /\ MarkInit
    /\ [][MarkNext]_vars
    /\ \A w \in Workers : WF_vars(MarkWorker(w))
    /\ WF_vars(MarkJoin)

(***************************************************************************)
(* Journal-level properties.                                               *)
(***************************************************************************)
JHead == jq.heap[jq.head]
JTail == jq.heap[jq.tail]

RECURSIVE SumTails(_, _)
SumTails(heap, n) == IF n = 0 THEN 0 ELSE heap[n].tail + SumTails(heap, n - 1)

\* C1: the values try_recv has returned so far are the first values sent, each
\* once and in send order (nothing lost, duplicated or reordered), whatever the
\* interleaving of the receiver's loads with the sender's stores.
C1_RoundTrip == IsPrefix(jrecvd, jsent)

C6_DisconnectedMeansDrained ==
    jrx.res = "disconnected" =>
        /\ jq.hup
        /\ JHead.head = JHead.tail
        /\ next_buffer(JHead) = NullPtr

\* C7: a live sender can always send, whatever the receiver is doing (in the
\* middle of a call, stalled, or dropped), and every send so far has put its
\* value into a buffer of the chain: a full tail buffer got a published
\* successor that holds the value.
C7_SendNeverBlocks ==
    /\ (jtx = "alive" /\ Len(jsent) < MaxSend) => ENABLED JSend
    /\ SumTails(jq.heap, Len(jq.heap)) = Len(jsent)
    /\ \A p \in 1..Len(jq.heap) :
          IF p = jq.tail
          THEN jq.heap[p].next = NullPtr
          ELSE jq.heap[p].next = p + 1 /\ jq.heap[p].tail = jq.heap[p].tail_max
    /\ Len(jq.heap) >= 2 => JTail.tail >= 1

\* C7 witness: the receiver is gone, the tail buffer is full and has been
\* reached by allocating, and the sender is about to send again.
C7_Witness ==
    /\ ~jrx_alive
    /\ jtx = "alive"
    /\ Len(jq.heap) >= 2
    /\ JTail.tail = JTail.tail_max
    /\ Len(jsent) < MaxSend

(***************************************************************************)
(* Properties of the collector.                                            *)
(***************************************************************************)
\* the addresses some running mutator holds a GcRoot to
Handles == { a \in Addrs : \E m \in Mutators : mstatus[m] = "running" /\ mroots[m][a] > 0 }

\* the addresses reachable from S through trace edges
RECURSIVE ReachFrom(_)
ReachFrom(S) ==
    LET T == S \cup UNION { obj[a].edges : a \in S }
    IN  IF T = S THEN S ELSE ReachFrom(T)

Protected == ReachFrom(Handles)

\* C2: no step runs the destructor of an object that is, before the step, the
\* target of a live GcRoot or reachable through trace edges from one.
C2_NoDestroyWhileReachable ==
    [][\A a \in Addrs : obj'[a].drops > obj[a].drops => a \notin Protected]_vars

\* the addresses the collector counts as roots, and what they reach
Rooted == { a \in Present(roots) : roots[a].refcount > 0 }

\* C3: no destructor runs twice, and once gc_thread has returned every allocated
\* object has been destroyed exactly once or is reachable from a root (an entry
\* with a positive refcount, or a GcRoot a running mutator still holds).
C3_DestroyedOnceOrReachable ==
    /\ \A a \in Addrs : obj[a].drops <= 1
    /\ gc.pc = "done" =>
          \A a \in Addrs : obj[a].st # "free" =>
              obj[a].drops = 1 \/ a \in ReachFrom(Rooted \cup Handles)

\* every mutator that ran has returned, and every GcRoot was dropped before
AllHandlesDropped ==
    \A m \in Mutators :
        /\ mstatus[m] \in {"new", "done", "failed"}
        /\ \A a \in Addrs : mroots[m][a] = 0

\* C4: when every GcRoot was dropped before its mutator finished, the root map
\* and the mature map are empty once the final collections have run.
C4_EmptyAfterShutdown ==
    (gc.pc = "done" /\ AllHandlesDropped) => Present(roots) = {} /\ Present(mature) = {}

\* merge_deferred on (rootmap, deferredbuf): does a decrement find no entry, or an
\* entry whose refcount is 0
RECURSIVE merge_underflows(_, _)
merge_underflows(rootmap, deferredbuf) ==
    IF deferredbuf = << >> THEN FALSE
    ELSE LET ptr == trie_ptr(Head(deferredbuf)) IN
         \/ rootmap[ptr] = Absent
         \/ rootmap[ptr].refcount = 0
         \/ merge_underflows([rootmap EXCEPT ![ptr] = RootMeta_dec(@)], Tail(deferredbuf))

\* every journal has so far been applied in the order it was sent, nothing skipped
JournalsInOrder == \A m \in Mutators : IsPrefix(applied[m], posted[m])

\* C8: when merge_deferred runs, every decrement it applies hits an entry whose
\* refcount is at least 1.  Stated for the runs in which no journal has lost a
\* record, so that what is checked is the order in which the journals are drained.
C8_NoRefcountUnderflow ==
    (gc.pc = "merge" /\ JournalsInOrder) => ~merge_underflows(roots, deferred)

\* C9: an object whose entry had refcount > 0 when the drain of a main-loop
\* iteration completed is not destroyed by the collections of that iteration.
C9_RootedSurvivesIteration == drain_rooted \cap iter_destroyed = {}

\* C10: what the collector has applied from a journal is, at every moment, a
\* prefix of what the mutator sent on it: nothing skipped, repeated or reordered.
C10_JournalOrder ==
    \A m \in Mutators :
        /\ Len(applied[m]) <= Len(posted[m])
        /\ \A i \in 1..Len(applied[m]) : applied[m][i] = posted[m][i]

\* the mutators whose thread has been spawned and has sent its journal receiver
Spawned == { m \in Mutators : mstatus[m] \in {"running", "dropping", "done"} }

\* the mutators whose journal receiver is still in the channel
Unregistered == { chan[i] : i \in 1..Len(chan) }

\* C11: in the step in which the collector leaves its main loop, every spawned
\* mutator's journal has been taken from the channel and every record sent on
\* it has been read.
C11_LeavesLoopOnlyWhenDrained ==
    [][(~gc.final /\ gc'.final) =>
          \A m \in Spawned : m \notin Unregistered /\ applied[m] = posted[m]]_vars

\* every mutator that was spawned has returned, and there is at least one
AllMutatorsFinished ==
    /\ \E m \in Mutators : mstatus[m] = "done"
    /\ \A m \in Mutators : mstatus[m] \in {"new", "done", "failed"}

\* C12: once every spawned mutator has finished, the collector has returned the
\* logger or can still take a step towards it: it is never stuck short of the
\* end of gc_thread.
C12_CollectorReachesShutdown ==
    AllMutatorsFinished => (gc.pc = "done" \/ ENABLED CollectorNext)

\* the allocated objects that lie on a reference cycle
OnCycle == { a \in Addrs : obj[a].st # "free" /\ a \in ReachFrom(obj[a].edges) }

\* the objects some GcRoot has pointed to: an increment was sent for them
EverRooted ==
    { a \in Addrs : \E m \in Mutators : \E i \in 1..Len(posted[m]) :
          /\ trie_ptr(posted[m][i]) = a
          /\ BitAnd(posted[m][i].ptr, INC_BIT) # 0 }

\* the members of the cycles that are reachable from an object that was rooted
RootedCycle == OnCycle \cap ReachFrom(EverRooted)

\* C13: no member of a reference cycle reachable from a rooted object is
\* destroyed twice, and once the handles are dropped, the mutators have
\* returned and gc_thread has returned, every member has been destroyed
\* exactly once.
C13_CycleDestroyedOnce ==
    /\ \A a \in RootedCycle : obj[a].drops <= 1
    /\ (gc.pc = "done" /\ AllHandlesDropped) => \A a \in RootedCycle : obj[a].drops = 1


\* the powers of two a requested capacity within the bounds can be rounded to
PowersOfTwo == { 2 ^ k : k \in 0..MaxRequestedCapacity }

\* the number of buffers that n sends need when each buffer takes p of them
BuffersFor(n, p) == IF n = 0 THEN 1 ELSE (n + p - 1) \div p

\* C14: every buffer of the chain has the capacity p, the smallest power of two
\* >= the requested capacity; the first p sends allocate nothing, the send that
\* follows a full buffer allocates exactly one successor, and a published
\* successor holds the value of that send in its first slot.
C14_BufferCapacity ==
    LET p == jq.heap[1].capacity IN
    /\ p \in PowersOfTwo /\ p >= jcap
    /\ \A r \in PowersOfTwo : r >= jcap => p <= r
    /\ \A i \in 1..Len(jq.heap) : jq.heap[i].capacity = p
    /\ Len(jq.heap) = BuffersFor(Len(jsent), p)
    /\ \A i \in 1..Len(jq.heap) :
          jq.heap[i].next # NullPtr =>
              /\ jq.heap[i].next = i + 1
              /\ jq.heap[i + 1].tail >= 1
              /\ jq.heap[i + 1].data[0] = jsent[i * p + 1]

\* C14 witness: the requested capacity 3 was rounded to 4, four sends filled the
\* first buffer and the fifth has just allocated the successor.
C14_Witness ==
    /\ jcap = 3
    /\ Len(jsent) = jq.heap[1].capacity + 1
    /\ Len(jq.heap) = 2
    /\ jq.heap[1].next = 2


\* the objects the mutators have allocated
AllocatedObjects == { a \in Addrs : obj[a].st # "free" }

\* C15: when every GcRoot was dropped before its mutator finished, the total the
\* logger has been given by add_dropped when gc_thread returns is the number of
\* objects allocated.
C15_DropCountEqualsAllocated ==
    (gc.pc = "done" /\ AllHandlesDropped) =>
        logger.dropped = Cardinality(AllocatedObjects)


\* C16: in the step in which try_recv replaces the head buffer (and frees the
\* old one), the old head is complete (tail = tail_max), its successor is
\* published and every item written to it has been read (head = tail).
C16_FreeOnlyDrainedBuffer ==
    [][(jrx_alive /\ jq'.head # jq.head) =>
          /\ JHead.tail = JHead.tail_max
          /\ next_buffer(JHead) # NullPtr
          /\ JHead.head = JHead.tail]_vars


\* the entries YoungHeap::mark starts from: refcount > 0, or not NEW
MarkRoots == { a \in Present(roots) : roots[a].refcount > 0 \/ ~is_new(roots[a]) }

\* the root-map entries reachable from S through the trace edges of traversible
\* objects that have an entry themselves
RECURSIVE TraceReach(_)
TraceReach(S) ==
    LET T == (S \cup UNION { obj[a].edges : a \in { b \in S : obj[b].trav } })
                 \cap Present(roots)
    IN  IF T = S THEN S ELSE TraceReach(T)

\* C17: the minor mark phase leaves marked every entry with refcount > 0 or not
\* NEW, and every entry reachable from one of them through trace edges.
C17_MinorMarkComplete ==
    [][(gc.pc = "mark" /\ gc'.pc = "sweep") =>
          \A a \in TraceReach(MarkRoots) : BitAnd(roots'[a].flags, MARK_BIT) # 0]_vars


\* C18: the sweep of a major collection destroys no mature object whose entry
\* in the root map has refcount > 0, and none reachable from such an object.
C18_MajorKeepsReachable ==
    [][(gc.pc = "mature_sweep" /\ gc'.pc # "mature_sweep") =>
          \A a \in ReachFrom(Rooted) :
              mature[a] # Absent => (obj'[a].drops = obj[a].drops /\ mature'[a] # Absent)]_vars


\* the number of decrements of address a in a deferred buffer
DecCount(buf, a) == Cardinality({ i \in 1..Len(buf) : trie_ptr(buf[i]) = a })

\* the refcount of an address in a root map (0 when it has no entry)
RefcountOf(map, a) == IF map[a] = Absent THEN 0 ELSE map[a].refcount

\* C19: a drain step that reads a DEC leaves the root map as it is and appends
\* the record to the deferred buffer; mark and sweep change neither the deferred
\* buffer nor the refcount of an entry they keep; merge_deferred takes from the
\* refcount of each address exactly the number of its deferred decrements and
\* leaves the deferred buffer empty.
C19_DecOnlyInMerge ==
    [][/\ (gc.pc = "drain" /\ deferred' # deferred) =>
             /\ roots' = roots
             /\ \E m \in Mutators :
                   /\ applied'[m] # applied[m]
                   /\ BitAnd(applied'[m][Len(applied'[m])].ptr, FLAGS_MASK) = DEC
                   /\ deferred' = Append(deferred, applied'[m][Len(applied'[m])])
       /\ (gc.pc = "drain" /\ deferred' = deferred) =>
             \A m \in Mutators :
                 applied'[m] # applied[m] =>
                     BitAnd(applied'[m][Len(applied'[m])].ptr, FLAGS_MASK) # DEC
       /\ (gc.pc \in {"mark", "sweep"} /\ gc'.pc # gc.pc) =>
             /\ deferred' = deferred
             /\ \A a \in Present(roots') : roots'[a].refcount = roots[a].refcount
       /\ (gc.pc = "merge" /\ gc'.pc # gc.pc) =>
             /\ deferred' = << >>
             /\ \A a \in Addrs :
                   DecCount(deferred, a) > 0 =>
                       /\ roots[a] # Absent /\ roots'[a] # Absent
                       /\ roots'[a].refcount = roots[a].refcount - DecCount(deferred, a)
      ]_vars


\* the journal whose record the step has just applied, and that record
DrainedJournal == CHOOSE m \in Mutators : applied'[m] # applied[m]
DrainedEntry == applied'[DrainedJournal][Len(applied'[DrainedJournal])]

\* the kinds of record that applied records of address a have had so far
AppliedKinds(a) ==
    UNION { { BitAnd(applied[m][i].ptr, FLAGS_MASK) :
                  i \in { j \in 1..Len(applied[m]) : trie_ptr(applied[m][j]) = a } } :
            m \in Mutators }

\* C20: a drain step that applies a NEW_INC, NEW or INC record changes the root
\* map at the record's address only and leaves the deferred buffer alone:
\* NEW_INC sets the entry to refcount 1 with NEW, NEW to refcount 0 with NEW,
\* INC adds one to an existing refcount or creates a non-NEW entry with the
\* record's vtable and refcount 1.
C20_DrainOneRecord ==
    [][(gc.pc = "drain" /\ applied' # applied
            /\ BitAnd(DrainedEntry.ptr, FLAGS_MASK) # DEC) =>
          LET e    == DrainedEntry
              a    == trie_ptr(e)
              kind == BitAnd(e.ptr, FLAGS_MASK)
          IN  /\ deferred' = deferred
              /\ mature' = mature
              /\ \A b \in Addrs \ {a} : roots'[b] = roots[b]
              /\ kind = NEW_INC =>
                    roots'[a] = [ refcount |-> 1, vtable |-> e.vtable, flags |-> NEW_BIT ]
              /\ kind = NEW_FLAGS =>
                    roots'[a] = [ refcount |-> 0, vtable |-> e.vtable, flags |-> NEW_BIT ]
              /\ kind = INC =>
                    roots'[a] = IF roots[a] = Absent
                                THEN [ refcount |-> 1, vtable |-> e.vtable, flags |-> 0 ]
                                ELSE [ roots[a] EXCEPT !.refcount = @ + 1 ]]_vars

\* C20 witness: the collector has just drained an INC for an address of which
\* it has seen no other record, and the entry it created is non-NEW with
\* refcount 1; the NEW_INC of the same address is still in another journal.
C20_Witness ==
    \E m \in Mutators : \E a \in Addrs :
        /\ gc.pc = "drain"
        /\ Len(applied[m]) > 0
        /\ trie_ptr(applied[m][Len(applied[m])]) = a
        /\ AppliedKinds(a) = {INC}
        /\ roots[a] = [ refcount |-> 1, vtable |-> applied[m][Len(applied[m])].vtable,
                        flags |-> 0 ]
        /\ \E n \in Mutators \ {m} : Len(posted[n]) > Len(applied[n])

\* C21: when merge_deferred is about to run, the root map has an entry for the
\* address of every deferred decrement.  Stated for the runs in which no journal
\* has lost a record, so that what is checked is the order of the drain.
C21_DeferredEntryPresent ==
    (gc.pc = "merge" /\ JournalsInOrder) =>
        \A i \in 1..Len(deferred) : roots[trie_ptr(deferred[i])] # Absent

\* the mutators whose journal is in the collector's journal list
Registered(g) == { g.journals[i] : i \in 1..Len(g.journals) }

\* C22: a journal leaves the journal list only in the retain at the end of a
\* read_journals pass, and only when its sender has been dropped and every
\* record sent on it has been read.
C22_PruneOnlyDrained ==
    [][/\ gc.pc # "end_drain" => Registered(gc) \subseteq Registered(gc')
       /\ \A m \in Registered(gc) \ Registered(gc') :
             journal[m].hup /\ applied[m] = posted[m]]_vars

\* C23: when the last try_recv returned Disconnected, the first read of the call
\* that follows it does not return a value: the result stays Disconnected or the
\* call goes on to its completion test.
C23_DisconnectedIsFinal ==
    [][jrx.res = "disconnected" => jrx'.res \in {"disconnected", "none"}]_vars

\* while the Sender exists, the buffer it works on (the tail) has not been
\* freed, and every freed buffer has a published successor
SenderBuffersLive(q) ==
    /\ q.tail \notin q.freed
    /\ \A p \in q.freed : q.heap[p].next # NullPtr

\* C24: as long as the sender has not finished its drop, the buffer it accesses
\* is never a freed one: the tail buffer is not freed, a freed buffer already has
\* its successor published, and a step of the sender (a send, or one of the two
\* stores of its drop) changes no buffer of the chain but the tail.
C24_SenderNeverTouchesFreed ==
    [][jtx # "dropped" =>
          /\ SenderBuffersLive(jq)
          /\ jtx' # "dropped" => SenderBuffersLive(jq')
          /\ (jsent' # jsent \/ jtx' # jtx) =>
                \A p \in 1..Len(jq.heap) : p # jq.tail => jq'.heap[p] = jq.heap[p]]_vars

\* C24 witness: the receiver has freed a buffer and the sender is in the middle
\* of its drop, between mark_completed and the store to hup.
C24_Witness ==
    /\ jq.freed # {}
    /\ jrx_alive
    /\ jtx = "dropping"

\* the NEW and MARK flags of a root-map entry, read off the flags word
FlagNew(meta) == (meta.flags \div NEW_BIT) % 2 = 1
FlagMark(meta) == (meta.flags \div MARK_BIT) % 2 = 1

\* the entries the three rules of the minor sweep apply to
SweepDestroys == { a \in Present(roots) : FlagNew(roots[a]) /\ ~FlagMark(roots[a]) }
SweepRemoves == { a \in Present(roots) : ~FlagNew(roots[a]) /\ roots[a].refcount = 0 }
SweepKeeps == Present(roots) \ (SweepDestroys \cup SweepRemoves)

\* C25: the sweep of a minor collection runs the destructor of exactly the NEW
\* unmarked entries and removes them, removes the non-NEW entries with refcount
\* 0 without a destructor, keeps every other entry with MARK cleared and
\* refcount, vtable and NEW flag as they were, and returns the number of kept
\* NEW entries and the number of destroyed objects.
C25_MinorSweepRules ==
    [][(gc.pc = "sweep" /\ gc'.pc # "sweep") =>
          /\ \A a \in Addrs :
                /\ obj'[a].drops = obj[a].drops + (IF a \in SweepDestroys THEN 1 ELSE 0)
                /\ a \notin SweepKeeps => roots'[a] = Absent
                /\ a \in SweepKeeps =>
                      /\ roots'[a] # Absent
                      /\ roots'[a].refcount = roots[a].refcount
                      /\ roots'[a].vtable = roots[a].vtable
                      /\ FlagNew(roots'[a]) = FlagNew(roots[a])
                      /\ ~FlagMark(roots'[a])
          /\ gc'.young_count = Cardinality({ a \in SweepKeeps : FlagNew(roots[a]) })
          /\ gc'.drop_count = Cardinality(SweepDestroys)]_vars

\* C25 witness: a sweep has just destroyed one NEW object, removed its entry,
\* and kept and counted the other, still NEW, entry.
C25_Witness ==
    /\ gc.pc = "merge"
    /\ gc.drop_count = 1
    /\ gc.young_count = 1
    /\ \E a \in Addrs : obj[a].st = "destroyed" /\ roots[a] = Absent
    /\ \E b \in Present(roots) : is_new(roots[b]) /\ roots[b].refcount > 0

\* the entries the promotion step of a major collection has to move
Promoted == { a \in Present(roots) : FlagNew(roots[a]) /\ roots[a].refcount > 0 }

\* C26: the promotion step puts into the mature map exactly the NEW entries with
\* refcount > 0, under their vtable without flag bits, clears NEW on exactly
\* those entries, and changes no other entry, no refcount and no other mature
\* entry.
C26_PromotionExact ==
    [][(gc.pc = "promote" /\ gc'.pc # "promote") =>
          \A a \in Addrs :
              IF a \in Promoted
              THEN /\ mature'[a] = [ vtable |-> roots[a].vtable - (roots[a].vtable % 4) ]
                   /\ roots'[a] = [ roots[a] EXCEPT !.flags = @ - NEW_BIT ]
              ELSE /\ mature'[a] = mature[a]
                   /\ roots'[a] = roots[a]]_vars

\* C26 witness: a promotion has just moved a rooted NEW entry to the mature map
\* and left an unrooted NEW entry behind.
C26_Witness ==
    /\ gc.pc = "mature_mark"
    /\ \E a \in Present(roots) :
          ~is_new(roots[a]) /\ roots[a].refcount > 0 /\ mature[a] # Absent
    /\ \E b \in Present(roots) :
          is_new(roots[b]) /\ roots[b].refcount = 0 /\ mature[b] = Absent

\* the TRAVERSE bit of a metadata word, as write() recorded it in the vtable
RecordedTraverse(meta) == (meta.vtable \div TRAVERSE_BIT) % 2 = 1

\* C27: on every root-map entry and every mature-map entry, mark_and_needs_trace
\* leaves the MARK bit set, changes nothing else (nothing at all on an entry
\* already marked), and returns true exactly when the entry was unmarked and its
\* recorded TRAVERSE bit is set.
C27_MarkAndNeedsTrace ==
    /\ \A a \in Present(roots) :
          LET r == RootMeta_mark_and_needs_trace(roots[a]) IN
          /\ r.needs = (~FlagMark(roots[a]) /\ RecordedTraverse(roots[a]))
          /\ r.meta = [ roots[a] EXCEPT !.flags = BitOr(@, MARK_BIT) ]
    /\ \A a \in Present(mature) :
          LET r == ObjectMeta_mark_and_needs_trace(mature[a])
              marked == (mature[a].vtable \div MARK_BIT) % 2 = 1
          IN
          /\ r.needs = (~marked /\ RecordedTraverse(mature[a]))
          /\ r.meta = [ mature[a] EXCEPT !.vtable = BitOr(@, MARK_BIT) ]

\* C28: whenever no collection is in progress (a minor collection has returned,
\* a major collection has returned, or gc_thread has returned), no entry of the
\* root map and no entry of the mature map has its MARK bit set.
C28_NoMarkBetweenCollections ==
    gc.pc \in {"loop", "drain", "end_drain", "promote", "done"} =>
        /\ \A a \in Present(roots) : ~FlagMark(roots[a])
        /\ \A a \in Present(mature) : ~ObjectMeta_is_marked(mature[a])

\* C29: an address enters the mature map only in the promotion step and only
\* from a root-map entry with refcount > 0; no address is at the same time in
\* the mature map and flagged NEW in the root map; and no destructor runs twice.
C29_MatureXorNew ==
    [][/\ \A a \in Addrs :
             (mature[a] = Absent /\ mature'[a] # Absent) =>
                 gc.pc = "promote" /\ roots[a] # Absent /\ roots[a].refcount > 0
       /\ \A a \in Present(mature') : roots'[a] = Absent \/ ~FlagNew(roots'[a])
       /\ \A a \in Addrs : obj'[a].drops <= 1]_vars

\* C29 witness: a major collection is about to sweep; a promoted address is in
\* the mature map with a non-NEW root-map entry, while another address is NEW in
\* the root map and not in the mature map.
C29_Witness ==
    /\ gc.pc = "mature_sweep"
    /\ \E a \in Present(mature) : roots[a] # Absent /\ ~is_new(roots[a])
    /\ \E b \in Present(roots) : is_new(roots[b]) /\ mature[b] = Absent

\* C30: the collector's position moves from the end of a drain to the mark of a
\* minor collection whatever the number of records read, a mark is entered only
\* from the end of a drain or from the exit of the main loop, and inside a minor
\* collection the phases follow each other as mark, sweep, merge_deferred; the
\* next drain starts only at the head of the loop.
C30_OneMinorPerIteration ==
    [][gc'.pc # gc.pc =>
          /\ gc.pc = "drain" => gc'.pc = "end_drain"
          /\ gc.pc = "end_drain" => gc'.pc = "mark"
          /\ gc.pc = "mark" => gc'.pc = "sweep"
          /\ gc.pc = "sweep" => gc'.pc = "merge"
          /\ gc.pc = "merge" => gc'.pc \in {"loop", "promote", "panicked"}
          /\ gc'.pc = "mark" =>
                gc.pc = "end_drain" \/ (gc.pc = "loop" /\ Len(gc.journals) = 0)
          /\ gc'.pc = "sweep" => gc.pc = "mark"
          /\ gc'.pc = "merge" => gc.pc = "sweep"
          /\ gc'.pc = "drain" => gc.pc = "loop" /\ Len(gc.journals) > 0]_vars

\* C30 witness: an iteration of the main loop that read no record is in the
\* sweep of its minor collection.
C30_Witness ==
    /\ gc.pc = "sweep"
    /\ ~gc.final
    /\ gc.entry_count = 0
    /\ Len(gc.journals) > 0

(***************************************************************************)
(* C31.  Inside the main loop the step that leaves the minor collection    *)
(* starts a major collection exactly when the sleep duration after the     *)
(* iteration's drain is above MIN_SLEEP_DUR and the young count returned   *)
(* by the minor collection is at least MAJOR_COLLECT_THRESHOLD; a major    *)
(* collection is never started in an iteration whose drain read a record,  *)
(* nor with a young count below the threshold, and inside the loop it is   *)
(* started by no other step.                                               *)
(***************************************************************************)
C31_MajorInLoop ==
    [][/\ (gc.pc = "merge" /\ ~gc.final /\ gc'.pc \in {"loop", "promote"}) =>
            /\ (gc'.pc = "promote") <=>
                 (gc.sleep_dur > MIN_SLEEP_DUR
                    /\ gc.young_count >= MAJOR_COLLECT_THRESHOLD)
            /\ gc'.pc = "promote" =>
                 gc.entry_count = 0 /\ gc.young_count >= MAJOR_COLLECT_THRESHOLD
       /\ (gc'.pc = "promote" /\ gc.pc # "promote") => gc.pc = "merge"]_vars

\* an in-loop major collection has been started
C31_Witness == gc.pc = "promote" /\ ~gc.final /\ gc.sleep_dur > MIN_SLEEP_DUR

(***************************************************************************)
(* C32.  The collector sleeps in an iteration exactly when the drain read  *)
(* no record: the step that ends such a drain sleeps for the current       *)
(* sleep_dur before it backs off.  Every sleep lasts between MIN_SLEEP_DUR *)
(* and MAX_SLEEP_DUR, and the back-off doubles the duration up to          *)
(* MAX_SLEEP_DUR, while a drain that read a record resets it to            *)
(* MIN_SLEEP_DUR.                                                          *)
(***************************************************************************)
C32_SleepDuration ==
    [][(gc.pc = "end_drain" /\ gc'.pc = "mark") =>
          IF gc.entry_count = 0
          THEN /\ gc.sleep_dur >= MIN_SLEEP_DUR
               /\ gc.sleep_dur <= MAX_SLEEP_DUR
               /\ gc'.sleep_dur = Min(gc.sleep_dur * 2, MAX_SLEEP_DUR)
          ELSE gc'.sleep_dur = MIN_SLEEP_DUR]_vars

(***************************************************************************)
(* C33.  Under every interleaving of the mark workers' reads and writes of *)
(* the flag words, marking never adds or removes an entry and never        *)
(* changes an entry's refcount, vtable pointer, TRAVERSE bit or NEW flag,  *)
(* and when the phase has returned the marked entries are exactly those a  *)
(* single sequential marker leaves marked.                                 *)
(***************************************************************************)
MarkJoined == \A w \in Workers : workers[w].pc = "joined"

\* the marked entries of a root map and of a mature map
MarkedRoots(rootmap) == { a \in Present(rootmap) : FlagMark(rootmap[a]) }
MarkedObjects(maturemap) == { a \in Present(maturemap) : ObjectMeta_is_marked(maturemap[a]) }

\* what one sequential marker leaves of the maps the phase began with
SequentialMark ==
    IF mark_heap = "young"
    THEN [ roots |-> YoungHeap_mark(mark_start.roots, obj), mature |-> mark_start.mature ]
    ELSE ParHeap_mark(mark_start.roots, mark_start.mature, obj)

C33_MarkRaceFree ==
    (mark_heap # "none" /\ gc.pc \in {"mark", "mature_mark", "sweep", "mature_sweep"}) =>
      /\ \A a \in Addrs :
           /\ (roots[a] = Absent) <=> (mark_start.roots[a] = Absent)
           /\ roots[a] # Absent =>
                /\ roots[a].refcount = mark_start.roots[a].refcount
                /\ roots[a].vtable = mark_start.roots[a].vtable
                /\ FlagNew(roots[a]) <=> FlagNew(mark_start.roots[a])
           /\ (mature[a] = Absent) <=> (mark_start.mature[a] = Absent)
           /\ mature[a] # Absent =>
                BitAnd(mature[a].vtable, MARK_MASK)
                   = BitAnd(mark_start.mature[a].vtable, MARK_MASK)
      /\ MarkJoined =>
           /\ MarkedRoots(roots) = MarkedRoots(SequentialMark.roots)
           /\ MarkedObjects(mature) = MarkedObjects(SequentialMark.mature)

\* the phase has returned and both workers have traced the same object
C33_Witness ==
    /\ MarkJoined /\ gc.pc \in {"sweep", "mature_sweep"}
    /\ \E a \in Addrs : \A w \in Workers : traced[w][a] = 1

(***************************************************************************)
(* C34.  One phase at a time acts on the root map and the mature map: a    *)
(* mark worker takes a step only while the collector is inside the mark    *)
(* phase, the sweep that follows acts only when every worker of the mark   *)
(* has finished, and every change of a map is made either by one worker    *)
(* step of the running mark or by the collector's own sweep step.          *)
(***************************************************************************)
InMark == gc.pc \in {"mark", "mature_mark"}

RecordKind(entry) == BitAnd(entry.ptr, FLAGS_MASK)

\* the records of the given kinds for address a among the first k of a journal
KindCount(s, k, a, kinds) ==
    Cardinality({ i \in 1..k : trie_ptr(s[i]) = a /\ RecordKind(s[i]) \in kinds })

\* what the step of mutator m did to address a
StepAllocates(a) == obj[a].st = "free" /\ obj'[a].st = "live"
StepGainsRoot(m, a) == mroots'[m][a] = mroots[m][a] + 1
StepDropsRoot(m, a) == mroots'[m][a] = mroots[m][a] - 1

C35_PostedRecords ==
    /\ [][\A m \in Mutators :
            \/ /\ posted'[m] = posted[m]
               /\ mroots'[m] = mroots[m]
               /\ \A a \in Addrs : obj[a].owner = m \/ obj'[a].owner # m
            \/ /\ Len(posted'[m]) = Len(posted[m]) + 1
               /\ SubSeq(posted'[m], 1, Len(posted[m])) = posted[m]
               /\ LET entry == posted'[m][Len(posted'[m])]
                      a     == trie_ptr(entry)
                  IN  /\ a \in Addrs
                      /\ \A b \in Addrs \ {a} :
                           mroots'[m][b] = mroots[m][b] /\ ~StepAllocates(b)
                      /\ RecordKind(entry) = NEW_INC <=>
                           StepAllocates(a) /\ StepGainsRoot(m, a)
                      /\ RecordKind(entry) = NEW_FLAGS <=>
                           StepAllocates(a) /\ mroots'[m][a] = mroots[m][a]
                      /\ RecordKind(entry) = INC <=>
                           ~StepAllocates(a) /\ StepGainsRoot(m, a)
                      /\ RecordKind(entry) = DEC <=>
                           ~StepAllocates(a) /\ StepDropsRoot(m, a)]_vars
    /\ [](\A m \in Mutators, a \in Addrs : \A k \in 0..Len(posted[m]) :
            KindCount(posted[m], k, a, {DEC})
               <= KindCount(posted[m], k, a, {NEW_INC, INC}))

\* a journal in which the DEC records of an address have caught up with its
\* NEW_INC and INC records, two of each
C35_Witness ==
    \E m \in Mutators, a \in Addrs :
       /\ KindCount(posted[m], Len(posted[m]), a, {DEC}) = 2
       /\ KindCount(posted[m], Len(posted[m]), a, {NEW_INC}) = 1
       /\ KindCount(posted[m], Len(posted[m]), a, {INC}) = 1

(***************************************************************************)
(* C36.  A young object is garbage for the minor collection that is about  *)
(* to sweep when it is live with a NEW entry, it is reachable from no       *)
(* object a GcRoot still points to, every record posted for it has         *)
(* been read, its DEC records balance its NEW_INC and INC records, and no  *)
(* DEC of it waits in the deferred buffer: its last DEC was read in the    *)
(* drain of an earlier iteration and merged there.  The sweep of that      *)
(* minor collection destroys every such object.                            *)
(***************************************************************************)
\* the records of the given kinds for address a in all journals of a history
AllCount(hist, a, kinds) ==
    LET n(m) == KindCount(hist[m], Len(hist[m]), a, kinds) IN
    n(1) + (IF NumMutators > 1 THEN n(2) ELSE 0) + (IF NumMutators > 2 THEN n(3) ELSE 0)

AllKinds == {NEW_INC, NEW_FLAGS, INC, DEC}

\* the addresses some GcRoot still points to, its thread running or not
HeldRoots == { a \in Addrs : \E m \in Mutators : mroots[m][a] > 0 }

YoungGarbage ==
    { a \in Addrs :
        /\ obj[a].st = "live"
        /\ roots[a] # Absent /\ FlagNew(roots[a])
        /\ a \notin ReachFrom(HeldRoots)
        /\ AllCount(applied, a, AllKinds) = AllCount(posted, a, AllKinds)
        /\ AllCount(posted, a, {DEC}) >= 1
        /\ AllCount(posted, a, {DEC}) = AllCount(posted, a, {NEW_INC, INC})
        /\ DecCount(deferred, a) = 0 }

C36_GarbageGoesNextMinor ==
    [][(gc.pc = "sweep" /\ gc'.pc = "merge") =>
          \A a \in YoungGarbage : obj'[a].st = "destroyed"]_vars

(***************************************************************************)
(* C37.  The balloon scenario: a segment is an object allocated unrooted   *)
(* (Gc::new) that a rooted object, the balloon, points to.  Once the       *)
(* balloon's handle has been dropped, every posted record has been read    *)
(* and the balloon's DEC has been merged (no entry of the root map has a   *)
(* positive refcount), the only step that runs a segment's destructor is   *)
(* the mature sweep of the major collection at collector shutdown.         *)
(***************************************************************************)
Segments ==
    { a \in Addrs : /\ obj[a].st # "free"
                    /\ a \notin EverRooted
                    /\ \E b \in EverRooted : a \in obj[b].edges }

AllRecordsRead ==
    \A b \in Addrs : AllCount(applied, b, AllKinds) = AllCount(posted, b, AllKinds)

C37_SegmentsLiveUntilShutdownMajor ==
    [][\A a \in Segments :
          (obj'[a].drops > obj[a].drops /\ HeldRoots = {} /\ AllRecordsRead
              /\ Rooted = {}) =>
             gc.pc = "mature_sweep" /\ gc.final]_vars

(***************************************************************************)
(* C38.  A major collection that finds no promotable entry in the root     *)
(* map (no entry with a positive refcount and the NEW flag) leaves the     *)
(* mature map as it was and runs no destructor: the mature map is empty    *)
(* when a major collection begins, a promotion loop without a promotable   *)
(* entry changes neither map, and the mature mark and the mature sweep of  *)
(* an empty mature map leave it empty and destroy nothing.                 *)
(***************************************************************************)
NoPromotableEntry ==
    \A a \in Present(roots) : roots[a].refcount = 0 \/ ~FlagNew(roots[a])

NoDestructorRuns == \A a \in Addrs : obj'[a].drops = obj[a].drops

C38_MajorWithoutPromotion ==
    /\ [](gc.pc = "promote" => Present(mature) = {})
    /\ [][/\ (gc.pc = "promote" /\ gc'.pc # "promote" /\ NoPromotableEntry) =>
               mature' = mature /\ roots' = roots /\ NoDestructorRuns
          /\ (gc.pc \in {"mature_mark", "mature_sweep"} /\ gc'.pc # gc.pc
                /\ Present(mature) = {}) =>
               mature' = mature /\ NoDestructorRuns]_vars

\* a major collection that promoted nothing is at its sweep, with a rooted entry
\* in the root map
C38_Witness ==
    /\ gc.pc = "mature_sweep" /\ Present(mature) = {}
    /\ \E a \in Present(roots) : roots[a].refcount > 0

(***************************************************************************)
(* C39.  Under every interleaving of the mark workers, on every object     *)
(* graph the phase can be given, rings and self-references included, no    *)
(* worker traces the same entry twice (it traces an entry only after it    *)
(* read the entry's word with the mark unset, and it sets the mark         *)
(* itself), and the mark phase, minor or mature, comes to its end: every   *)
(* trace stack empties, every worker finishes its shard and pool.scoped    *)
(* returns.                                                                *)
(***************************************************************************)
C39_MarkTerminates ==
    /\ [](\A w \in Workers, a \in Addrs : traced[w][a] <= 1)
    /\ <>MarkJoined

\* the phase has returned after a worker traced an object that lies on a ring
C39_Witness ==
    /\ MarkJoined
    /\ \E w \in Workers : \E a \in OnCycle : traced[w][a] = 1

(***************************************************************************)
(* C40.  A try_recv call during which no send ran returns Empty only if    *)
(* every value sent so far has been returned.  The call that replaces a    *)
(* drained head buffer by its published successor never returns Empty: it  *)
(* returns the first value of the successor, which is the value that       *)
(* follows the last one returned.                                          *)
(***************************************************************************)
ReturnsNow(res) == jrx'.pc = "idle" /\ jrx'.res = res /\ jrx' # jrx

C40_EmptyMeansDrained ==
    [][/\ (ReturnsNow("empty") /\ jquiet') => jrecvd' = jsent'
       /\ (jrx.pc = "peek" /\ jrx' # jrx) =>
            /\ ReturnsNow("ok")
            /\ jrx'.item = jq.heap[jq.head].data[0]
            /\ jquiet' => jrx'.item = Len(jrecvd) + 1]_vars

=============================================================================
